---- MODULE Spec2Model ----
(***************************************************************************)
(* Model of the player generation and persistence engine of               *)
(* modules/player_generator.py.                                            *)
(*                                                                         *)
(*   Spec      one generate_and_persist call (single and bulk mode)        *)
(*             against a record store with auto-increment identities.      *)
(*   SpecGen   one generate_player call: the untrainable stat allocator    *)
(*             run step by step, then the assembly of the record.          *)
(* Each specification leaves the variables of the other at rest.           *)
(***************************************************************************)
EXTENDS Integers, Sequences, FiniteSets, TLC

\* ------------------------------------------------------------------------
\* Bounds of the model
\* ------------------------------------------------------------------------
MaxCount == 6
MaxBatchSize == 3
MaxExisting == 1
\* the count of each of two parallel calls
MaxParCount == 2
\* requests handled in one run of the session
MaxRequests == 4
\* the clock stops here (tenths of a second)
MaxClock == 18100
\* the most scouting chances a profile starts with
MaxScouting == 11

\* ------------------------------------------------------------------------
\* State
\* ------------------------------------------------------------------------
VARIABLES
  \* --- generate_and_persist: arguments
  count, user_id, insert, batch_size, first_names, last_names,
  \* --- generate_and_persist: locals and control
  pc, i, p, player_name, batch, total_inserted, preview, inserted_ids,
  conn, closes, out, error,
  \* --- the store: name tables, players_basic rows, auto-increment counter
  db_first, db_last, store, next_id,
  \* --- history of the call (what was generated, flushed and replied)
  generated, flushes, replies,
  \* --- generate_player / generate_untrainable_by_grade: locals and control
  g_pc, grade, target_sum, stats, capacity, remaining, player,
  \* --- generate_random_height_with_dice and pick_position: locals and control
  h_pc, height, dice, height_cm, r_pos, position,
  \* --- two calls in parallel: the locals of each call, the committed rows
  \*     of players_basic and its auto-increment counter
  calls, rows, auto_inc,
  \* --- the post-correction of the allocator applied to given stats
  post_pc, post_grade, post_in, post_out,
  \* --- login_required: the clock, the session, the logout log, the requests
  now, session, logout_log, requests, view_runs, response, touched,
  \* --- scouts_post: the profile row, the probe requests, the players stored
  scouting_chances_left, probes, scouted, chances_before

pvars == <<count, user_id, insert, batch_size, first_names, last_names,
           pc, i, p, player_name, batch, total_inserted, preview,
           inserted_ids, conn, closes, out, error, db_first, db_last, store, next_id,
           generated, flushes, replies>>

gvars == <<g_pc, grade, target_sum, stats, capacity, remaining, player>>

hvars == <<h_pc, height, dice, height_cm, r_pos, position>>

cvars == <<calls, rows, auto_inc>>

ovars == <<post_pc, post_grade, post_in, post_out>>

wvars == <<now, session, logout_log, requests, view_runs, response, touched>>

svars == <<scouting_chances_left, probes, scouted, chances_before>>

vars == <<pvars, gvars, hvars, cvars, ovars, wvars, svars>>

\* ------------------------------------------------------------------------
\* Values
\* ------------------------------------------------------------------------
\* Optional[List[str]]: None, or a list
NoneList == [some |-> FALSE, val |-> <<>>]
SomeList(l) == [some |-> TRUE, val |-> l]

\* contents a name table / an injected name list can have
FirstNamePools == {<<>>, <<"Jo", "Al">>}
LastNamePools == {<<>>, <<"Li", "K">>}

UserIds == {7}

\* the record generate_player returns, reduced to its owner and its position
\* in the generation order of the call
NoRecord == [user_id |-> 0, seq |-> 0]
Record(u, k) == [user_id |-> u, seq |-> k]

\* an optional integer (player_id: int or None)
NoneId == <<>>
SomeId(n) == <<n>>

NoOut == [returned |-> FALSE]

\* ------------------------------------------------------------------------
\* Helpers
\* ------------------------------------------------------------------------
Min(a, b) == IF a <= b THEN a ELSE b

RECURSIVE Flatten(_)
Flatten(ss) == IF ss = <<>> THEN <<>> ELSE Head(ss) \o Flatten(Tail(ss))

Prefix(s, n) == SubSeq(s, 1, Min(n, Len(s)))

\* ------------------------------------------------------------------------
\* The store's write operations
\* ------------------------------------------------------------------------
\* rows n .. n+k-1 of players_basic for the records of a list, in list order
NewRows(players, nid) ==
  [j \in 1..Len(players) |-> [player_id |-> nid + j - 1, rec |-> players[j]]]

\* variant: the row is committed although the call raises
insert_player_to_db_committed(st, nid, rec, ok) ==
  [raised |-> ~ok, store |-> Append(st, [player_id |-> nid, rec |-> rec]),
   next_id |-> nid + 1, lastrowid |-> nid]

\* insert_player_to_db: execute + commit of one row; returns cur.lastrowid.
\* ok = FALSE is an execute or commit that raises: nothing is committed.
insert_player_to_db(st, nid, rec, ok) ==
  IF ok
  THEN [raised |-> FALSE, store |-> Append(st, [player_id |-> nid, rec |-> rec]),
        next_id |-> nid + 1, lastrowid |-> nid]
  ELSE [raised |-> TRUE, store |-> st, next_id |-> nid, lastrowid |-> 0]

\* variant: the row count of the last statement only (one row short)
bulk_insert_players_short(st, nid, players, reply) ==
  IF players = <<>> \/ reply = "fail"
  THEN [raised |-> players # <<>>, store |-> st, next_id |-> nid,
        is_list |-> FALSE, affected |-> 0, ids |-> <<>>]
  ELSE [raised |-> FALSE, store |-> st \o NewRows(players, nid),
        next_id |-> nid + Len(players),
        is_list |-> (reply = "ids"),
        affected |-> Len(players) - 1,
        ids |-> IF reply = "ids"
                THEN [j \in 1..(Len(players) - 1) |-> nid + j - 1] ELSE <<>>]

\* variant: an autocommit connection, the rows of a failing batch stay
bulk_insert_players_autocommit(st, nid, players, reply) ==
  IF players = <<>>
  THEN [raised |-> FALSE, store |-> st, next_id |-> nid,
        is_list |-> FALSE, affected |-> 0, ids |-> <<>>]
  ELSE [raised |-> (reply = "fail"), store |-> st \o NewRows(players, nid),
        next_id |-> nid + Len(players),
        is_list |-> (reply = "ids"),
        affected |-> IF reply = "fail" THEN 0 ELSE Len(players),
        ids |-> IF reply = "ids"
                THEN [j \in 1..Len(players) |-> nid + j - 1] ELSE <<>>]

\* the list a store that reports the new primary keys returns: one identity
\* per inserted row, in insertion order
ReturnedIds(players, nid) == [j \in 1..Len(players) |-> nid + j - 1]

\* bulk_insert_players: executemany + one commit.  The repository's function
\* returns len(players) (reply "count"); generate_and_persist also accepts a
\* store that returns the list of the new primary keys (reply "ids").
\* Reply "fail" is an executemany or commit that raises: the batch is not
\* committed and is discarded when the connection is closed.
bulk_insert_players(st, nid, players, reply) ==
  IF players = <<>>
  THEN [raised |-> FALSE, store |-> st, next_id |-> nid,
        is_list |-> FALSE, affected |-> 0, ids |-> <<>>]
  ELSE IF reply = "fail"
  THEN [raised |-> TRUE, store |-> st, next_id |-> nid,
        is_list |-> FALSE, affected |-> 0, ids |-> <<>>]
  ELSE [raised |-> FALSE, store |-> st \o NewRows(players, nid),
        next_id |-> nid + Len(players),
        is_list |-> (reply = "ids"),
        affected |-> Len(players),
        ids |-> IF reply = "ids" THEN ReturnedIds(players, nid) ELSE <<>>]

Replies == {"ids", "count", "fail"}

\* variant: only the first-name list is checked
load_name_texts_first_only(dbf, dbl) ==
  IF dbf = <<>>
  THEN [raised |-> TRUE, first |-> NoneList, last |-> NoneList]
  ELSE [raised |-> FALSE, first |-> SomeList(dbf), last |-> SomeList(dbl)]

\* load_name_texts: reads both name tables, raises RuntimeError when one of
\* them has no usable row
load_name_texts(dbf, dbl) ==
  IF dbf = <<>> \/ dbl = <<>>
  THEN [raised |-> TRUE, first |-> NoneList, last |-> NoneList]
  ELSE [raised |-> FALSE, first |-> SomeList(dbf), last |-> SomeList(dbl)]

\* ------------------------------------------------------------------------
\* generate_and_persist: preview bookkeeping
\* ------------------------------------------------------------------------
\* A preview entry is a dict of its own: alias_of is 0.  (An entry that were
\* the record object of pass k itself would have alias_of = k, and every
\* write to the entry would be a write to that record.)
\* variant: preview.append(p), the record object itself
PreviewCopy_alias(rec) ==
  [rec |-> rec, has_key |-> FALSE, player_id |-> NoneId, alias_of |-> rec.seq]

\* dict(p) put in the preview before any identity is known (bulk branch)
PreviewCopy(rec) ==
  [rec |-> rec, has_key |-> FALSE, player_id |-> NoneId, alias_of |-> 0]

\* variant: the preview entry gets the identity before the new one
PreviewWithId_stale(rec, nid) ==
  [rec |-> rec, has_key |-> TRUE, player_id |-> SomeId(nid - 1), alias_of |-> 0]

\* p_with_id of the single branch
PreviewWithId(rec, nid) ==
  [rec |-> rec, has_key |-> TRUE, player_id |-> SomeId(nid), alias_of |-> 0]

\* while pv_idx < len(preview) and "player_id" in preview[pv_idx]: pv_idx += 1
\* (pv_idx is 1-based here)
RECURSIVE SkipAssigned(_, _)
SkipAssigned(pv, idx) ==
  IF idx <= Len(pv) /\ pv[idx].has_key THEN SkipAssigned(pv, idx + 1) ELSE idx

\* variant: entries that already have an identity are not skipped
RECURSIVE AssignIds_noskip(_, _, _)
AssignIds_noskip(pv, ids, idx) ==
  IF ids = <<>> THEN pv
  ELSE IF idx <= Len(pv)
       THEN AssignIds_noskip([pv EXCEPT ![idx] = [@ EXCEPT !.has_key = TRUE,
                                                            !.player_id = SomeId(Head(ids))]],
                             Tail(ids), idx + 1)
       ELSE pv

\* for pid in new_ids: give pid to the first preview entry without player_id
RECURSIVE AssignIds(_, _, _)
AssignIds(pv, ids, idx) ==
  IF ids = <<>> THEN pv
  ELSE LET j == SkipAssigned(pv, idx) IN
       IF j <= Len(pv)
       THEN AssignIds([pv EXCEPT ![j] = [@ EXCEPT !.has_key = TRUE,
                                                   !.player_id = SomeId(Head(ids))]],
                      Tail(ids), j + 1)
       ELSE AssignIds(pv, Tail(ids), j)

\* variant: entries without identity are left without the key
FillNone_skip(pv) == pv

\* for pv in preview: if "player_id" not in pv: pv["player_id"] = None
FillNone(pv) ==
  [j \in 1..Len(pv) |-> IF pv[j].has_key THEN pv[j] ELSE [pv[j] EXCEPT !.has_key = TRUE]]

\* the dict p of pass k as the engine has left it: the keys generate_player
\* gave it, plus "player_id" if a preview entry that is this very object was
\* annotated
RecordObject(gen, pv, k) ==
  IF \E j \in 1..Len(pv) : pv[j].alias_of = k
  THEN LET j == CHOOSE j \in 1..Len(pv) : pv[j].alias_of = k
       IN  [rec |-> gen[k], has_key |-> pv[j].has_key, player_id |-> pv[j].player_id]
  ELSE [rec |-> gen[k], has_key |-> FALSE, player_id |-> NoneId]

\* variant: i <= 5
PreviewAdd_six(pv, idx0, entry) == IF idx0 <= 5 THEN Append(pv, entry) ELSE pv

\* the limit of the preview (i < 5)
PreviewAdd(pv, idx0, entry) == IF idx0 < 5 THEN Append(pv, entry) ELSE pv

\* ------------------------------------------------------------------------
\* generate_player: configuration
\* ------------------------------------------------------------------------
DEFAULT_AGE == 18
STAT_MIN == 1
STAT_MAX == 99

OVERALL_GRADES == <<"G", "C", "B", "A", "S", "SS", "SSR">>

STAT_KEYS ==
  <<"ath_stamina", "ath_strength", "ath_speed", "ath_jump",
    "shot_touch", "shot_release", "shot_accuracy", "shot_range",
    "def_rebound", "def_boxout", "def_contest", "def_disrupt",
    "off_move", "off_dribble", "off_pass", "off_handle",
    "talent_offiq", "talent_defiq", "talent_health", "talent_luck">>

GRADE_RULES ==
  [G   |-> [sum_min |-> 10,  sum_max |-> 400, stat_min |-> 10, stat_max |-> 60],
   C   |-> [sum_min |-> 399, sum_max |-> 600, stat_min |-> 20, stat_max |-> 70],
   B   |-> [sum_min |-> 599, sum_max |-> 700, stat_min |-> 30, stat_max |-> 70],
   A   |-> [sum_min |-> 699, sum_max |-> 800, stat_min |-> 40, stat_max |-> 75],
   S   |-> [sum_min |-> 799, sum_max |-> 900, stat_min |-> 50, stat_max |-> 80],
   SS  |-> [sum_min |-> 900, sum_max |-> 950, stat_min |-> 60, stat_max |-> 99],
   SSR |-> [sum_min |-> 951, sum_max |-> 990, stat_min |-> 91, stat_max |-> 99]]

UNTRAINABLE_KEYS ==
  <<"ath_stamina", "ath_strength", "ath_speed", "ath_jump",
    "shot_touch", "shot_release",
    "talent_offiq", "talent_defiq", "talent_health", "talent_luck">>

TRAINABLE_KEYS ==
  <<"shot_accuracy", "shot_range",
    "def_rebound", "def_boxout", "def_contest", "def_disrupt",
    "off_move", "off_dribble", "off_pass", "off_handle">>

\* GRADE_FACTOR in tenths (1.0, 1.1, 1.3, 1.6, 2.0, 2.5, 3.0)
GRADE_FACTOR ==
  [G |-> 10, C |-> 11, B |-> 13, A |-> 16, S |-> 20, SS |-> 25, SSR |-> 30]

\* ------------------------------------------------------------------------
\* generate_player: helpers
\* ------------------------------------------------------------------------
Range(s) == {s[j] : j \in 1..Len(s)}

\* dict.get(k, 0)
Get(d, k) == IF k \in DOMAIN d THEN d[k] ELSE 0

RECURSIVE SumKeys(_, _)
SumKeys(d, keys) ==
  IF keys = <<>> THEN 0 ELSE Get(d, Head(keys)) + SumKeys(d, Tail(keys))

\* {**a, **b}: the keys of both, the value of b where both have the key
Merge(a, b) ==
  [k \in (DOMAIN a) \cup (DOMAIN b) |-> IF k \in DOMAIN b THEN b[k] ELSE a[k]]

compute_untrainable_sum(d) == SumKeys(d, UNTRAINABLE_KEYS)

\* the totals t for which the double t * 1.1 lies above the tie t*11/10 (all
\* other totals ending in 5 give a product that is exactly the tie)
TiesAbove11 ==
  {25, 45, 55, 85, 95, 105, 115} \cup {165 + 10 * j : j \in 0..6}
    \cup {325 + 10 * j : j \in 0..14} \cup {645 + 10 * j : j \in 0..28}
    \cup {1285 + 10 * j : j \in 0..57}

\* variant: int(total * factor), the fraction dropped
RoundProduct_trunc(total, f10) == (total * f10) \div 10

\* int(round(total * factor)) on doubles: round-half-even of the double
\* product; f10 is the factor in tenths
RoundProduct(total, f10) ==
  LET n == total * f10
      q == n \div 10
      r == n % 10
  IN  IF r < 5 THEN q
      ELSE IF r > 5 THEN q + 1
      ELSE IF f10 = 11 /\ total \in TiesAbove11 THEN q + 1
      ELSE IF q % 2 = 0 THEN q ELSE q + 1

compute_start_salary(pl) ==
  RoundProduct(SumKeys(pl, STAT_KEYS),
               IF pl.overall_grade \in DOMAIN GRADE_FACTOR
               THEN GRADE_FACTOR[pl.overall_grade] ELSE 10)

\* ------------------------------------------------------------------------
\* generate_untrainable_by_grade: the pieces of the allocator
\* ------------------------------------------------------------------------
\* keys_for_dist = [k for k in UNTRAINABLE_KEYS if k != "age"]
keys_for_dist == SelectSeq(UNTRAINABLE_KEYS, LAMBDA k : k # "age")

\* variant: every key starts at stat_max
FloorStats_max(rule) ==
  [k \in Range(UNTRAINABLE_KEYS) |-> IF k = "age" THEN DEFAULT_AGE ELSE rule.stat_max]

\* every key at stat_min ("age" would get DEFAULT_AGE)
FloorStats(rule) ==
  [k \in Range(UNTRAINABLE_KEYS) |-> IF k = "age" THEN DEFAULT_AGE ELSE rule.stat_min]

\* variant: keys without capacity stay candidates
Candidates_all(cap) == keys_for_dist

\* candidates = [k for k in keys_for_dist if capacity[k] > 0]
Candidates(cap) == SelectSeq(keys_for_dist, LAMBDA k : cap[k] > 0)

\* the values drawn for random.randint(sum_min, sum_max): both ends of the
\* range and, where the range holds it, the sum of the floor allocation
TargetDraws(rule) ==
  {rule.sum_min, rule.sum_max}
    \cup {t \in {Len(keys_for_dist) * rule.stat_min} :
            t >= rule.sum_min /\ t <= rule.sum_max}

\* variant: the floor allocation is never returned early
FloorReaches_never(current_sum, target) == FALSE

\* if current_sum >= target_sum: return stats
FloorReaches(current_sum, target) == current_sum >= target

\* the keys drawn for random.choice(candidates): the first and the last
PickDraws(cands) == {cands[1], cands[Len(cands)]}

\* variant: the step is not capped by what remains of the target
StepSize_norem(rem, capk, r) == Min(capk, r)

\* variant: the step is not capped by the capacity of the key
StepSize_nocap(rem, capk, r) == Min(rem, r)

\* step = min(remaining, capacity[k], random.randint(1, 3))
StepSize(rem, capk, r) == Min(Min(rem, capk), r)

\* variant: the whole shortfall is added to the first key, whatever its room
RaiseStats_nocap(st, keys, short, stat_max) ==
  IF keys = <<>> \/ short <= 0 THEN st
  ELSE [st EXCEPT ![Head(keys)] = @ + short]

\* post-correction, sum below sum_min: walk the keys, add min(room, short)
RECURSIVE RaiseStats(_, _, _, _)
RaiseStats(st, keys, short, stat_max) ==
  IF keys = <<>> \/ short <= 0 THEN st
  ELSE LET k == Head(keys)
           add == Min(stat_max - st[k], short)
       IN  RaiseStats([st EXCEPT ![k] = @ + add], Tail(keys), short - add, stat_max)

\* post-correction, sum above sum_max: walk the keys, take min(reducible, over)
RECURSIVE LowerStats(_, _, _, _)
LowerStats(st, keys, over, stat_min) ==
  IF keys = <<>> \/ over <= 0 THEN st
  ELSE LET k == Head(keys)
           sub == Min(st[k] - stat_min, over)
       IN  LowerStats([st EXCEPT ![k] = @ - sub], Tail(keys), over - sub, stat_min)

\* variant: a sum below sum_max is raised towards sum_max
PostCorrected_tomax(st, rule) ==
  LET final_sum == compute_untrainable_sum(st) IN
  IF final_sum < rule.sum_max
  THEN RaiseStats(st, keys_for_dist, rule.sum_max - final_sum, rule.stat_max)
  ELSE st

\* the final check of generate_untrainable_by_grade
PostCorrected(st, rule) ==
  LET final_sum == compute_untrainable_sum(st) IN
  IF final_sum < rule.sum_min
  THEN RaiseStats(st, keys_for_dist, rule.sum_min - final_sum, rule.stat_max)
  ELSE IF final_sum > rule.sum_max
  THEN LowerStats(st, keys_for_dist, final_sum - rule.sum_max, rule.stat_min)
  ELSE st

\* the values drawn for rand_stat(): random.randint(STAT_MIN, STAT_MAX),
\* both ends and the middle
RandStatDraws == {STAT_MIN, (STAT_MIN + STAT_MAX) \div 2, STAT_MAX}

NoStats == [k \in {} |-> 0]
NoPlayer == [user_id |-> 0]

\* generate_player at rest (the variables of SpecGen in the other
\* specifications)
GenIdle ==
  /\ g_pc = "idle"
  /\ grade = "G"
  /\ target_sum = 0
  /\ stats = NoStats
  /\ capacity = NoStats
  /\ remaining = 0
  /\ player = NoPlayer

\* height and position at rest (the variables of SpecHeight in the other
\* specifications)
HeightIdle ==
  /\ h_pc = "idle"
  /\ height = 0
  /\ dice = 0
  /\ height_cm = 0
  /\ r_pos = 0
  /\ position = ""

\* no parallel calls (the variables of SpecPar in the other specifications)
ParIdle ==
  /\ calls = <<>>
  /\ rows = <<>>
  /\ auto_inc = 1

\* no post-correction under study (the variables of SpecPost in the other
\* specifications)
PostIdle ==
  /\ post_pc = "idle"
  /\ post_grade = "G"
  /\ post_in = NoStats
  /\ post_out = NoStats

\* no session (the variables of SpecSession in the other specifications)
SessionIdle ==
  /\ now = 0
  /\ session = [user_id |-> 0, last_seen |-> 0]
  /\ logout_log = <<>>
  /\ requests = 0
  /\ view_runs = 0
  /\ response = "none"
  /\ touched = 0

\* no probe request (the variables of SpecScout in the other specifications)
ScoutIdle ==
  /\ scouting_chances_left = 0
  /\ probes = <<>>
  /\ scouted = 0
  /\ chances_before = 0

\* the variables of the web application at rest
AppIdle == PostIdle /\ SessionIdle /\ ScoutIdle

\* ------------------------------------------------------------------------
\* generate_and_persist: the call, step by step
\* ------------------------------------------------------------------------
InitPersist ==
  /\ count \in 0..MaxCount
  /\ user_id \in UserIds
  /\ insert \in BOOLEAN
  /\ batch_size \in 1..MaxBatchSize
  /\ first_names \in {NoneList} \cup {SomeList(l) : l \in FirstNamePools}
  /\ last_names \in {NoneList} \cup {SomeList(l) : l \in LastNamePools}
  /\ db_first \in FirstNamePools
  /\ db_last \in LastNamePools
  /\ \E n \in 0..MaxExisting :
       /\ store = [j \in 1..n |-> [player_id |-> j, rec |-> Record(0, j)]]
       /\ next_id = n + 1
  /\ pc = "start"
  /\ i = 0
  /\ p = NoRecord
  /\ player_name = ""
  /\ batch = <<>>
  /\ total_inserted = 0
  /\ preview = <<>>
  /\ inserted_ids = <<>>
  /\ conn = "none"
  /\ closes = 0
  /\ out = NoOut
  /\ error = "none"
  /\ generated = <<>>
  /\ flushes = <<>>
  /\ replies = <<>>

\* the names are prepared once (load_name_texts when a list was not given),
\* then the branch opens its connection and initialises its locals
Prepare ==
  /\ pc = "start"
  /\ IF ~first_names.some \/ ~last_names.some
     THEN LET r == load_name_texts(db_first, db_last) IN
          IF r.raised
          THEN /\ pc' = "raised"
               /\ error' = "RuntimeError"
               /\ UNCHANGED <<first_names, last_names, conn>>
          ELSE /\ first_names' = r.first
               /\ last_names' = r.last
               /\ conn' = "open"
               /\ pc' = "loop"
               /\ UNCHANGED error
     ELSE /\ conn' = "open"
          /\ pc' = "loop"
          /\ UNCHANGED <<first_names, last_names, error>>
  /\ UNCHANGED <<gvars, hvars, cvars, ovars, wvars, svars>>
  /\ UNCHANGED closes
  /\ UNCHANGED player_name
  /\ UNCHANGED <<count, user_id, insert, batch_size, i, p, batch,
                 total_inserted, preview, inserted_ids, out,
                 db_first, db_last, store, next_id, generated, flushes, replies>>

\* generate_player as seen by the caller: random.choice of an empty name list
\* raises IndexError, otherwise the next record of the call is returned
generate_player_ok(fn, ln) == fn # <<>> /\ ln # <<>>

\* candidates = [s for s in last_names if isinstance(s, str) and len(s) < 3]
Snippets(ln) == SelectSeq(ln, LAMBDA s : Len(s) < 3)

\* variant: the touched-up last name is appended to last_names
generate_player_name_append(fn, ln, fi, li, coin, si) ==
  LET first == fn[fi]
      last == ln[li]
      candidates == Snippets(ln)
      touch == Len(last) <= 1 /\ coin /\ candidates # <<>>
      last2 == IF touch THEN last \o candidates[si] ELSE last
  IN  [name |-> first \o " " \o last2,
       first_names |-> fn,
       last_names |-> IF touch THEN Append(ln, last2) ELSE ln]

\* generate_player_name: fi and li are the positions random.choice draws in
\* the two lists, coin is random.random() > 0.5, si the position drawn among
\* the candidates; the result is the name and the two lists as the call
\* leaves them
generate_player_name(fn, ln, fi, li, coin, si) ==
  LET first == fn[fi]
      last == ln[li]
      candidates == Snippets(ln)
      last2 == IF Len(last) <= 1 /\ coin /\ candidates # <<>>
               THEN last \o candidates[si] ELSE last
  IN  [name |-> first \o " " \o last2, first_names |-> fn, last_names |-> ln]

\* the positions random.choice can draw in a list (1 where the list is empty
\* and no draw is made)
Positions(l) == IF l = <<>> THEN {1} ELSE 1..Len(l)

\* variant: the batch is flushed only when it holds more than batch_size
BatchFull_late(b, bs) == Len(b) > bs

\* if len(batch) >= batch_size
BatchFull(b, bs) == Len(b) >= bs

\* one pass of "for i in range(count)" up to the insert or the flush test
Generate ==
  /\ pc = "loop"
  /\ i < count
  /\ IF ~generate_player_ok(first_names.val, last_names.val)
     THEN /\ pc' = "raising"
          /\ error' = "IndexError"
          /\ UNCHANGED <<i, p, player_name, batch, preview, generated,
                         first_names, last_names>>
     ELSE LET rec == Record(user_id, i + 1) IN
          /\ \E fi \in Positions(first_names.val), li \in Positions(last_names.val),
                coin \in BOOLEAN, si \in Positions(Snippets(last_names.val)) :
                LET nm == generate_player_name(first_names.val, last_names.val,
                                               fi, li, coin, si)
                IN  /\ player_name' = nm.name
                    /\ first_names' = SomeList(nm.first_names)
                    /\ last_names' = SomeList(nm.last_names)
          /\ p' = rec
          /\ generated' = Append(generated, rec)
          /\ i' = i + 1
          /\ UNCHANGED error
          /\ IF ~insert
             THEN /\ pc' = "insert"
                  /\ UNCHANGED <<batch, preview>>
             ELSE /\ preview' = PreviewAdd(preview, i, PreviewCopy(rec))
                  /\ batch' = Append(batch, rec)
                  /\ pc' = IF BatchFull(batch', batch_size) THEN "flush" ELSE "loop"
  /\ UNCHANGED <<gvars, hvars, cvars, ovars, wvars, svars>>
  /\ UNCHANGED closes
  /\ UNCHANGED <<count, user_id, insert, batch_size,
                 total_inserted, inserted_ids, conn, out,
                 db_first, db_last, store, next_id, flushes, replies>>

\* single branch: insert_player_to_db, then the bookkeeping of the pass
InsertOne ==
  /\ pc = "insert"
  /\ \E ok \in BOOLEAN :
       LET r == insert_player_to_db(store, next_id, p, ok) IN
       /\ store' = r.store
       /\ next_id' = r.next_id
       /\ IF r.raised
          THEN /\ pc' = "raising"
               /\ error' = "PersistenceError"
               /\ UNCHANGED <<total_inserted, inserted_ids, preview>>
          ELSE /\ total_inserted' = total_inserted + 1
               /\ inserted_ids' = Append(inserted_ids, r.lastrowid)
               /\ preview' = PreviewAdd(preview, i - 1, PreviewWithId(p, r.lastrowid))
               /\ pc' = "loop"
               /\ UNCHANGED error
  /\ UNCHANGED <<gvars, hvars, cvars, ovars, wvars, svars>>
  /\ UNCHANGED closes
  /\ UNCHANGED player_name
  /\ UNCHANGED <<count, user_id, insert, batch_size, first_names, last_names,
                 i, p, batch, conn, out, db_first, db_last,
                 generated, flushes, replies>>

\* bulk branch: what is done with the value bulk_insert_players returned
ApplyReply(r) ==
  IF r.is_list
  THEN /\ total_inserted' = total_inserted + Len(r.ids)
       /\ inserted_ids' = inserted_ids \o r.ids
       /\ preview' = AssignIds(preview, r.ids, 1)
  ELSE /\ total_inserted' = total_inserted + r.affected
       /\ UNCHANGED <<inserted_ids, preview>>

\* bulk branch: the flush inside the loop (len(batch) >= batch_size)
Flush ==
  /\ pc = "flush"
  /\ \E reply \in Replies :
       LET r == bulk_insert_players(store, next_id, batch, reply) IN
       /\ store' = r.store
       /\ next_id' = r.next_id
       /\ flushes' = Append(flushes, batch)
       /\ replies' = Append(replies, [kind |-> reply,
                                      n |-> IF r.is_list THEN Len(r.ids) ELSE r.affected])
       /\ IF r.raised
          THEN /\ pc' = "raising"
               /\ error' = "PersistenceError"
               /\ UNCHANGED <<total_inserted, inserted_ids, preview, batch>>
          ELSE /\ ApplyReply(r)
               /\ batch' = <<>>
               /\ pc' = "loop"
               /\ UNCHANGED error
  /\ UNCHANGED <<gvars, hvars, cvars, ovars, wvars, svars>>
  /\ UNCHANGED closes
  /\ UNCHANGED player_name
  /\ UNCHANGED <<count, user_id, insert, batch_size, first_names, last_names,
                 i, p, conn, out, db_first, db_last, generated>>

\* bulk branch: the flush of the last, partial batch after the loop
TailFlush ==
  /\ pc = "loop"
  /\ i = count
  /\ insert
  /\ batch # <<>>
  /\ \E reply \in Replies :
       LET r == bulk_insert_players(store, next_id, batch, reply) IN
       /\ store' = r.store
       /\ next_id' = r.next_id
       /\ flushes' = Append(flushes, batch)
       /\ replies' = Append(replies, [kind |-> reply,
                                      n |-> IF r.is_list THEN Len(r.ids) ELSE r.affected])
       /\ IF r.raised
          THEN /\ pc' = "raising"
               /\ error' = "PersistenceError"
               /\ UNCHANGED <<total_inserted, inserted_ids, preview>>
          ELSE /\ ApplyReply(r)
               /\ pc' = "tail_done"
               /\ UNCHANGED error
  /\ UNCHANGED <<gvars, hvars, cvars, ovars, wvars, svars>>
  /\ UNCHANGED closes
  /\ UNCHANGED player_name
  /\ UNCHANGED <<count, user_id, insert, batch_size, first_names, last_names,
                 i, p, batch, conn, out, db_first, db_last, generated>>

\* the summary of the single branch
ReturnSingle ==
  /\ pc = "loop"
  /\ i = count
  /\ ~insert
  /\ out' = [returned |-> TRUE, total_generated |-> count,
             total_inserted |-> total_inserted, preview |-> preview,
             has_inserted_ids |-> TRUE, inserted_ids |-> inserted_ids,
             mode |-> "single_insert"]
  /\ pc' = "returning"
  /\ UNCHANGED <<gvars, hvars, cvars, ovars, wvars, svars>>
  /\ UNCHANGED closes
  /\ UNCHANGED player_name
  /\ UNCHANGED <<count, user_id, insert, batch_size, first_names, last_names,
                 i, p, batch, total_inserted, preview, inserted_ids, conn, error,
                 db_first, db_last, store, next_id, generated, flushes, replies>>

\* the summary of the bulk branch: player_id None where no identity came back,
\* inserted_ids only when the list is not empty
ReturnBulk ==
  /\ insert
  /\ \/ pc = "tail_done"
     \/ pc = "loop" /\ i = count /\ batch = <<>>
  /\ preview' = FillNone(preview)
  /\ out' = [returned |-> TRUE, total_generated |-> count,
             total_inserted |-> total_inserted, preview |-> preview',
             has_inserted_ids |-> (inserted_ids # <<>>), inserted_ids |-> inserted_ids,
             mode |-> "bulk_insert"]
  /\ pc' = "returning"
  /\ UNCHANGED <<gvars, hvars, cvars, ovars, wvars, svars>>
  /\ UNCHANGED closes
  /\ UNCHANGED player_name
  /\ UNCHANGED <<count, user_id, insert, batch_size, first_names, last_names,
                 i, p, batch, total_inserted, inserted_ids, conn, error,
                 db_first, db_last, store, next_id, generated, flushes, replies>>

\* finally: conn.close(), on the way out with the summary or with the error
\* variant: no finally, the connection is closed on the way out with the
\* summary only
finally_close_on_return(c, n, path) ==
  IF path = "returning" THEN [conn |-> "closed", closes |-> n + 1]
  ELSE [conn |-> c, closes |-> n]

\* finally: conn.close()
finally_close(c, n, path) == [conn |-> "closed", closes |-> n + 1]

Close ==
  /\ pc \in {"returning", "raising"}
  /\ conn' = finally_close(conn, closes, pc).conn
  /\ closes' = finally_close(conn, closes, pc).closes
  /\ pc' = IF pc = "returning" THEN "returned" ELSE "raised"
  /\ UNCHANGED <<gvars, hvars, cvars, ovars, wvars, svars>>
  /\ UNCHANGED player_name
  /\ UNCHANGED <<count, user_id, insert, batch_size, first_names, last_names,
                 i, p, batch, total_inserted, preview, inserted_ids, out, error,
                 db_first, db_last, store, next_id, generated, flushes, replies>>

Init == InitPersist /\ GenIdle /\ HeightIdle /\ ParIdle /\ AppIdle

Next ==
  \/ Prepare
  \/ Generate
  \/ InsertOne
  \/ Flush
  \/ TailFlush
  \/ ReturnSingle
  \/ ReturnBulk
  \/ Close

Spec == Init /\ [][Next]_vars

\* ------------------------------------------------------------------------
\* generate_player: the call, step by step
\* ------------------------------------------------------------------------
\* generate_and_persist at rest (the variables of Spec in SpecGen)
PersistIdle ==
  /\ count = 0
  /\ user_id \in UserIds
  /\ insert = FALSE
  /\ batch_size = 1
  /\ first_names = NoneList
  /\ last_names = NoneList
  /\ db_first = <<>>
  /\ db_last = <<>>
  /\ store = <<>>
  /\ next_id = 1
  /\ pc = "idle"
  /\ i = 0
  /\ p = NoRecord
  /\ player_name = ""
  /\ batch = <<>>
  /\ total_inserted = 0
  /\ preview = <<>>
  /\ inserted_ids = <<>>
  /\ conn = "none"
  /\ closes = 0
  /\ out = NoOut
  /\ error = "none"
  /\ generated = <<>>
  /\ flushes = <<>>
  /\ replies = <<>>

InitGen ==
  /\ PersistIdle
  /\ HeightIdle
  /\ ParIdle
  /\ AppIdle
  /\ g_pc = "start"
  /\ grade = "G"
  /\ target_sum = 0
  /\ stats = NoStats
  /\ capacity = NoStats
  /\ remaining = 0
  /\ player = NoPlayer

\* pick_overall_grade, then the head of generate_untrainable_by_grade: the
\* floor allocation, the target, and the early return when the floor already
\* reaches the target
AllocStart ==
  /\ g_pc = "start"
  /\ \E g \in Range(OVERALL_GRADES) :
       LET rule == GRADE_RULES[g]
           st == FloorStats(rule)
           current_sum == compute_untrainable_sum(st)
       IN  \E t \in TargetDraws(rule) :
             /\ grade' = g
             /\ target_sum' = t
             /\ stats' = st
             /\ IF FloorReaches(current_sum, t)
                THEN /\ g_pc' = "allocated"
                     /\ UNCHANGED <<capacity, remaining>>
                ELSE /\ capacity' = [k \in Range(keys_for_dist) |-> rule.stat_max - st[k]]
                     /\ remaining' = t - current_sum
                     /\ g_pc' = "dist"
  /\ UNCHANGED player
  /\ UNCHANGED <<pvars, hvars, cvars, ovars, wvars, svars>>

\* one pass of "while remaining > 0" that finds a candidate
DistStep ==
  /\ g_pc = "dist"
  /\ remaining > 0
  /\ Candidates(capacity) # <<>>
  /\ \E k \in PickDraws(Candidates(capacity)) : \E r \in 1..3 :
       LET step == StepSize(remaining, capacity[k], r) IN
       /\ stats' = [stats EXCEPT ![k] = @ + step]
       /\ capacity' = [capacity EXCEPT ![k] = @ - step]
       /\ remaining' = remaining - step
  /\ UNCHANGED <<g_pc, grade, target_sum, player>>
  /\ UNCHANGED <<pvars, hvars, cvars, ovars, wvars, svars>>

\* the loop ends (remaining exhausted, or no candidate: break); the final
\* check corrects the sum towards [sum_min, sum_max] and the stats are returned
PostCorrect ==
  /\ g_pc = "dist"
  /\ remaining <= 0 \/ Candidates(capacity) = <<>>
  /\ stats' = PostCorrected(stats, GRADE_RULES[grade])
  /\ g_pc' = "allocated"
  /\ UNCHANGED <<grade, target_sum, capacity, remaining, player>>
  /\ UNCHANGED <<pvars, hvars, cvars, ovars, wvars, svars>>

\* variant: the first trainable stat is written under the key "shot_touch"
TrainableStats_overlap(a, b) ==
  [k \in {"age", "shot_touch"} \cup (Range(TRAINABLE_KEYS) \ {"shot_accuracy"}) |->
     IF k = "age" THEN DEFAULT_AGE
     ELSE IF k = "shot_touch" THEN a
     ELSE IF \E j \in 1..Len(TRAINABLE_KEYS) : TRAINABLE_KEYS[j] = k /\ j % 2 = 1
          THEN a ELSE b]

\* stats_trainable: "age" and one rand_stat() per trainable key
TrainableStats(a, b) ==
  [k \in {"age"} \cup Range(TRAINABLE_KEYS) |->
     IF k = "age" THEN DEFAULT_AGE
     ELSE IF \E j \in 1..Len(TRAINABLE_KEYS) : TRAINABLE_KEYS[j] = k /\ j % 2 = 1
          THEN a ELSE b]

\* the rest of generate_player: untrainable_sum, the trainable stats, the
\* merge of the twenty stats, the record and its start_salary
AssemblePlayer(u, g, su, tr) ==
  LET all == Merge(su, tr)
      base == Merge(all, [user_id |-> u,
                          untrainable_sum |-> compute_untrainable_sum(su),
                          overall_grade |-> g,
                          training_points |-> 0])
  IN  Merge(base, [start_salary |-> compute_start_salary(base)])

Assemble ==
  /\ g_pc = "allocated"
  /\ \E a \in RandStatDraws : \E b \in RandStatDraws :
       player' = AssemblePlayer(user_id, grade, stats, TrainableStats(a, b))
  /\ g_pc' = "done"
  /\ UNCHANGED <<grade, target_sum, stats, capacity, remaining>>
  /\ UNCHANGED <<pvars, hvars, cvars, ovars, wvars, svars>>

NextGen ==
  \/ AllocStart
  \/ DistStep
  \/ PostCorrect
  \/ Assemble

SpecGen == InitGen /\ [][NextGen]_vars

\* ------------------------------------------------------------------------
\* generate_player: height and position
\* ------------------------------------------------------------------------
\* The double mean + z * std_dev is kept in tenths of a centimetre.  The
\* values drawn: below the range, the two ends of the range, halves (where
\* round goes to the even integer), values next to the bucket limits of
\* pick_position, and above the range.
HeightDraws ==
  {1500, 1599, 1600, 1605, 1800, 1895, 1995, 2000, 2095, 2200, 2295, 2300,
   2301, 2400}

\* int(round(height)) of a double given in tenths: the nearest integer, the
\* even one at a half
RoundTenths(h10) ==
  LET q == h10 \div 10
      m == h10 % 10
  IN  IF m < 5 THEN q
      ELSE IF m > 5 THEN q + 1
      ELSE IF q % 2 = 0 THEN q ELSE q + 1

\* variant: only the upper limit is tested
HeightAccepted_nolow(h10, min_height, max_height) == h10 <= max_height * 10

\* if min_height <= height <= max_height
HeightAccepted(h10, min_height, max_height) ==
  min_height * 10 <= h10 /\ h10 <= max_height * 10

\* variant: the sum is not clamped
FinalHeight_noclamp(h10, d, max_height) == RoundTenths(h10) + d

\* final_height = min(int(round(height)) + dice, max_height)
FinalHeight(h10, d, max_height) == Min(RoundTenths(h10) + d, max_height)

POSITIONS == <<"PG", "SG", "SF", "PF", "C">>

\* the values drawn for random.random() in pick_position, in hundredths:
\* both sides of every threshold, and both ends of [0, 1)
PositionDraws == {0, 4, 5, 14, 15, 24, 25, 34, 35, 54, 55, 59, 60, 79, 80, 84, 85, 99}

\* variant: the first bucket takes 190 as well
pick_position_190(h, r100) ==
  IF h <= 190 THEN (IF r100 < 60 THEN "PG" ELSE "SG")
  ELSE IF h < 200
  THEN (IF r100 < 35 THEN "PG" ELSE IF r100 < 80 THEN "SG" ELSE "SF")
  ELSE IF h < 210
  THEN (IF r100 < 5 THEN "PG" ELSE IF r100 < 15 THEN "SG"
        ELSE IF r100 < 35 THEN "SF" ELSE IF r100 < 85 THEN "PF" ELSE "C")
  ELSE (IF r100 < 5 THEN "PG" ELSE IF r100 < 15 THEN "SG"
        ELSE IF r100 < 25 THEN "SF" ELSE IF r100 < 55 THEN "PF" ELSE "C")

\* pick_position: the bucket of the height, then the cumulative thresholds
\* of the bucket against r
pick_position(h, r100) ==
  IF h < 190 THEN (IF r100 < 60 THEN "PG" ELSE "SG")
  ELSE IF h < 200
  THEN (IF r100 < 35 THEN "PG" ELSE IF r100 < 80 THEN "SG" ELSE "SF")
  ELSE IF h < 210
  THEN (IF r100 < 5 THEN "PG" ELSE IF r100 < 15 THEN "SG"
        ELSE IF r100 < 35 THEN "SF" ELSE IF r100 < 85 THEN "PF" ELSE "C")
  ELSE (IF r100 < 5 THEN "PG" ELSE IF r100 < 15 THEN "SG"
        ELSE IF r100 < 25 THEN "SF" ELSE IF r100 < 55 THEN "PF" ELSE "C")

InitHeight ==
  /\ PersistIdle
  /\ GenIdle
  /\ ParIdle
  /\ AppIdle
  /\ h_pc = "height"
  /\ height = 0
  /\ dice = 0
  /\ height_cm = 0
  /\ r_pos = 0
  /\ position = ""

\* one pass of "while True" of generate_random_height_with_dice, called with
\* min_height = 160 and max_height = 230: a draw outside the range is drawn
\* again, a draw inside gets the dice and is returned
HeightTry ==
  /\ h_pc = "height"
  /\ \E h \in HeightDraws :
       /\ height' = h
       /\ IF HeightAccepted(h, 160, 230)
          THEN \E d \in 0..10 :
                 /\ dice' = d
                 /\ height_cm' = FinalHeight(h, d, 230)
                 /\ h_pc' = "position"
          ELSE UNCHANGED <<dice, height_cm, h_pc>>
  /\ UNCHANGED <<r_pos, position>>
  /\ UNCHANGED <<pvars, gvars, cvars, ovars, wvars, svars>>

\* position = pick_position(height_cm)
PickPosition ==
  /\ h_pc = "position"
  /\ \E x \in PositionDraws :
       /\ r_pos' = x
       /\ position' = pick_position(height_cm, x)
  /\ h_pc' = "done"
  /\ UNCHANGED <<height, dice, height_cm>>
  /\ UNCHANGED <<pvars, gvars, cvars, ovars, wvars, svars>>

NextHeight ==
  \/ HeightTry
  \/ PickPosition

SpecHeight == InitHeight /\ [][NextHeight]_vars

\* the pass of the loop whose draw is in range
HeightAccept == HeightTry /\ h_pc' = "position"

\* generate_random_height_with_dice with a fair random source: the loop is
\* not left waiting for ever, and a draw in range, possible in every pass,
\* comes at last
SpecHeightFair == SpecHeight /\ WF_vars(NextHeight) /\ WF_vars(HeightAccept)

\* ------------------------------------------------------------------------
\* generate_untrainable_by_grade: the final check, applied to given stats
\* ------------------------------------------------------------------------
\* the stats the final check is applied to: every stat within
\* [stat_min, stat_max] as the allocation keeps it, the first three keys at
\* an end or in the middle of the range, the other keys at an end
PostInputs(rule) ==
  LET mid == (rule.stat_min + rule.stat_max) \div 2 IN
  {f \in [Range(keys_for_dist) -> {rule.stat_min, mid, rule.stat_max}] :
     \A j \in 4..Len(keys_for_dist) : f[keys_for_dist[j]] # mid}

InitPost ==
  /\ PersistIdle
  /\ GenIdle
  /\ HeightIdle
  /\ ParIdle
  /\ SessionIdle
  /\ ScoutIdle
  /\ post_pc = "start"
  /\ post_grade \in Range(OVERALL_GRADES)
  /\ post_in \in PostInputs(GRADE_RULES[post_grade])
  /\ post_out = NoStats

\* final_sum = compute_untrainable_sum(stats), the correction, return stats
ApplyPost ==
  /\ post_pc = "start"
  /\ post_out' = PostCorrected(post_in, GRADE_RULES[post_grade])
  /\ post_pc' = "done"
  /\ UNCHANGED <<post_grade, post_in>>
  /\ UNCHANGED <<pvars, gvars, hvars, cvars, wvars, svars>>

NextPost == ApplyPost

SpecPost == InitPost /\ [][NextPost]_vars

\* ------------------------------------------------------------------------
\* app.py: the session, login_required and the idle timeout
\* ------------------------------------------------------------------------
\* The clock "now" counts tenths of a second; the session keeps whole seconds.
IDLE_MINUTES == 10

\* the session without keys (a missing key reads as 0, which is falsy)
NoSession == [user_id |-> 0, last_seen |-> 0]

\* the time that passes between two requests, in tenths of a second: 599 s,
\* 599.5 s, 600 s, 600.5 s
Gaps == {5990, 5995, 6000, 6005}

\* the clock when the first request arrives: at a full second, or late in one
StartClocks == {10, 19}

\* _now_ts: int(datetime.now(timezone.utc).timestamp())
NowTs(t) == t \div 10

\* variant: idle_seconds > IDLE_MINUTES * 60
IdleTimedOut_gt(now_ts, last_seen) == now_ts - last_seen > IDLE_MINUTES * 60

\* idle_seconds = now - last_seen; if idle_seconds >= IDLE_MINUTES * 60
IdleTimedOut(now_ts, last_seen) == now_ts - last_seen >= IDLE_MINUTES * 60

\* check_idle_timeout_and_record, the decision: no timeout without user_id
\* or without last_seen
check_idle_timeout(sess, t) ==
  IF sess.user_id = 0 \/ sess.last_seen = 0 THEN FALSE
  ELSE IdleTimedOut(NowTs(t), sess.last_seen)

\* write_logout_log: nothing without user_id; the row is added and committed,
\* or the error of the store is swallowed (ok = FALSE)
write_logout_log(log, uid, reason, ok) ==
  IF uid = 0 \/ ~ok THEN log ELSE Append(log, [user_id |-> uid, reason |-> reason])

InitSession ==
  /\ PersistIdle
  /\ GenIdle
  /\ HeightIdle
  /\ ParIdle
  /\ PostIdle
  /\ ScoutIdle
  /\ now \in StartClocks
  /\ session = NoSession
  /\ logout_log = <<>>
  /\ requests = 0
  /\ view_runs = 0
  /\ response = "none"
  /\ touched = 0

\* time passes
Tick ==
  /\ requests < MaxRequests
  /\ \E d \in Gaps :
       /\ now + d <= MaxClock
       /\ now' = now + d
  /\ UNCHANGED <<session, logout_log, requests, view_runs, response, touched>>
  /\ UNCHANGED <<pvars, gvars, hvars, cvars, ovars, svars>>

\* POST /login: a failed login leaves the session, a successful one writes
\* user_id and touch_last_seen()
Login ==
  /\ requests < MaxRequests
  /\ requests' = requests + 1
  /\ \E ok \in BOOLEAN : \E u \in UserIds :
       IF ok
       THEN /\ session' = [user_id |-> u, last_seen |-> NowTs(now)]
            /\ touched' = now
            /\ response' = "index"
       ELSE /\ response' = "login_failed"
            /\ UNCHANGED <<session, touched>>
  /\ UNCHANGED <<now, logout_log, view_runs>>
  /\ UNCHANGED <<pvars, gvars, hvars, cvars, ovars, svars>>

\* /logout: the manual logout is logged when a user is logged in, the
\* session is cleared
Logout ==
  /\ requests < MaxRequests
  /\ requests' = requests + 1
  /\ \E ok \in BOOLEAN :
       logout_log' = write_logout_log(logout_log, session.user_id, "manual", ok)
  /\ session' = NoSession
  /\ response' = "index"
  /\ UNCHANGED <<now, view_runs, touched>>
  /\ UNCHANGED <<pvars, gvars, hvars, cvars, ovars, svars>>

\* a request of a view under login_required: the wrapper, with
\* check_idle_timeout_and_record and touch_last_seen.  "found" says whether
\* the session cookie is there and a login of the last 24 hours matches the
\* address and agent (then a session_invalid logout is written as well).
ProtectedRequest ==
  /\ requests < MaxRequests
  /\ requests' = requests + 1
  /\ \E ok \in BOOLEAN : \E found \in BOOLEAN : \E ok2 \in BOOLEAN :
       LET uid == session.user_id
           invalid(log) == IF found
                           THEN write_logout_log(log, CHOOSE u \in UserIds : TRUE,
                                                 "session_invalid", ok2)
                           ELSE log
       IN  IF uid # 0
           THEN IF check_idle_timeout(session, now)
                THEN /\ logout_log' = invalid(write_logout_log(logout_log, uid,
                                                               "idle_timeout", ok))
                     /\ session' = NoSession
                     /\ response' = "timeout"
                     /\ UNCHANGED <<view_runs, touched>>
                ELSE /\ session' = [session EXCEPT !.last_seen = NowTs(now)]
                     /\ touched' = now
                     /\ view_runs' = view_runs + 1
                     /\ response' = "view"
                     /\ UNCHANGED logout_log
           ELSE /\ logout_log' = invalid(logout_log)
                /\ response' = "login"
                /\ UNCHANGED <<session, view_runs, touched>>
  /\ UNCHANGED now
  /\ UNCHANGED <<pvars, gvars, hvars, cvars, ovars, svars>>

NextSession ==
  \/ Tick
  \/ Login
  \/ Logout
  \/ ProtectedRequest

SpecSession == InitSession /\ [][NextSession]_vars

\* ------------------------------------------------------------------------
\* app.py: scouts_post, action "probe"
\* ------------------------------------------------------------------------
\* scouting_chances_left of the profile before the requests
ChanceDraws == {0, 1, 2, MaxScouting}

\* the form field "times"
TimesRaw == {"1", "10", "ALL", "5"}

\* a request that has not started
NewProbe == [pc |-> "start", times_raw |-> "", scouting_left |-> 0, times |-> 0,
             k |-> 0, success |-> 0, commit |-> "none"]

\* times: min(10, left) for "10", max(0, left) for "ALL", min(1, left) for
\* "1", 0 for anything else
ProbeTimes(times_raw, scouting_left) ==
  IF times_raw = "10" THEN Min(10, scouting_left)
  ELSE IF times_raw = "ALL" THEN (IF scouting_left > 0 THEN scouting_left ELSE 0)
  ELSE IF times_raw = "1" THEN Min(1, scouting_left)
  ELSE 0

\* max(0, scouting_left - success)
ChancesAfter(scouting_left, success) ==
  IF scouting_left - success > 0 THEN scouting_left - success ELSE 0

InitScoutWith(n) ==
  /\ PersistIdle
  /\ GenIdle
  /\ HeightIdle
  /\ ParIdle
  /\ PostIdle
  /\ SessionIdle
  /\ scouting_chances_left \in ChanceDraws
  /\ chances_before = scouting_chances_left
  /\ probes = [q \in 1..n |-> NewProbe]
  /\ scouted = 0

\* the profile is read, times is worked out; with times <= 0 the page is
\* returned at once
ProbeRead(q) ==
  /\ probes[q].pc = "start"
  /\ \E t \in TimesRaw :
       LET left == scouting_chances_left
           times == ProbeTimes(t, left)
       IN  probes' = [probes EXCEPT ![q] =
                        [@ EXCEPT !.times_raw = t, !.scouting_left = left,
                                  !.times = times,
                                  !.pc = IF times <= 0 THEN "done" ELSE "loop"]]
  /\ UNCHANGED <<scouting_chances_left, scouted, chances_before>>
  /\ UNCHANGED <<pvars, gvars, hvars, cvars, ovars, wvars>>

\* one pass of "for _ in range(times)": generate_and_persist(count=1,
\* insert=False) stores one player and adds its total_inserted, or raises
\* and is skipped
ProbeGenerate(q) ==
  /\ probes[q].pc = "loop"
  /\ probes[q].k < probes[q].times
  /\ \E ok \in BOOLEAN :
       /\ scouted' = IF ok THEN scouted + 1 ELSE scouted
       /\ probes' = [probes EXCEPT ![q] =
                        [@ EXCEPT !.k = @ + 1,
                                  !.success = IF ok THEN @ + 1 ELSE @]]
  /\ UNCHANGED <<scouting_chances_left, chances_before>>
  /\ UNCHANGED <<pvars, gvars, hvars, cvars, ovars, wvars>>

\* after the loop: if success > 0 the chances left are written from the
\* value read at the start and committed; a commit that fails is rolled back
ProbeWrite(q) ==
  /\ probes[q].pc = "loop"
  /\ probes[q].k = probes[q].times
  /\ IF probes[q].success > 0
     THEN \E committed \in BOOLEAN :
            /\ scouting_chances_left' =
                 IF committed
                 THEN ChancesAfter(probes[q].scouting_left, probes[q].success)
                 ELSE scouting_chances_left
            /\ probes' = [probes EXCEPT ![q] =
                            [@ EXCEPT !.pc = "done",
                                      !.commit = IF committed THEN "ok" ELSE "failed"]]
     ELSE /\ probes' = [probes EXCEPT ![q] = [@ EXCEPT !.pc = "done"]]
          /\ UNCHANGED scouting_chances_left
  /\ UNCHANGED <<scouted, chances_before>>
  /\ UNCHANGED <<pvars, gvars, hvars, cvars, ovars, wvars>>

NextScout ==
  \E q \in DOMAIN probes :
     \/ ProbeRead(q)
     \/ ProbeGenerate(q)
     \/ ProbeWrite(q)

\* one probe request
InitScoutOne == InitScoutWith(1)

SpecScoutOne == InitScoutOne /\ [][NextScout]_vars

\* two probe requests of the same user, in any interleaving
InitScout == InitScoutWith(2)

SpecScout == InitScout /\ [][NextScout]_vars




\* ------------------------------------------------------------------------
\* Two generate_and_persist calls in parallel, each on its own connection
\* ------------------------------------------------------------------------
\* Each call has its locals in calls[q]; the calls share the store only.
\* A statement executed on a connection takes its identities from the
\* auto-increment counter at once and its rows become part of the table at the
\* commit of that connection, so the steps of a call are: open, generate,
\* execute, commit (with the bookkeeping that follows), return.  The names are
\* given and no statement fails.
Procs == {1, 2}

ParBatchSizes == {1, 2}

\* the owner of call q: the same for both calls, or one of its own
ParUserIds(q) == {7, 6 + q}

\* the replies of a store that does not fail
ParReplies == {"ids", "count"}

\* the record of pass k of call q (call tells the records of two calls of
\* one owner apart)
ParRecord(q, u, k) == [user_id |-> u, seq |-> k, call |-> q]

CallStart(c, u, ins, b) ==
  [count |-> c, user_id |-> u, insert |-> ins, batch_size |-> b,
   pc |-> "start", i |-> 0, p |-> NoRecord, batch |-> <<>>,
   pending |-> <<>>, lastrowid |-> 0,
   total_inserted |-> 0, preview |-> <<>>, inserted_ids |-> <<>>,
   conn |-> "none", out |-> NoOut, generated |-> <<>>]

\* variant: the identity is the last one the table gave out, to any connection
LastRowId_global(own, auto) == auto - 1

\* cur.lastrowid: the identity of the row this cursor inserted
LastRowId(own, auto) == own

InitPar ==
  /\ PersistIdle
  /\ GenIdle
  /\ HeightIdle
  /\ AppIdle
  /\ calls \in [Procs -> {CallStart(c, u, ins, b) :
                            c \in 0..MaxParCount, u \in {7, 8},
                            ins \in BOOLEAN, b \in ParBatchSizes}]
  /\ \A q \in Procs : calls[q].user_id \in ParUserIds(q)
  /\ rows = <<>>
  /\ auto_inc = 1

\* conn = get_connection(): a connection of its own for the call
ParOpen(q) ==
  /\ calls[q].pc = "start"
  /\ calls' = [calls EXCEPT ![q].conn = "open", ![q].pc = "loop"]
  /\ UNCHANGED <<rows, auto_inc>>
  /\ UNCHANGED <<pvars, gvars, hvars, ovars, wvars, svars>>

\* one pass of "for i in range(count)" up to the insert or the flush test
ParGenerate(q) ==
  LET c == calls[q]
      rec == ParRecord(q, c.user_id, c.i + 1)
  IN  /\ c.pc = "loop"
      /\ c.i < c.count
      /\ calls' = [calls EXCEPT ![q] =
           [c EXCEPT !.p = rec,
                     !.generated = Append(@, rec),
                     !.i = @ + 1,
                     !.preview = IF c.insert
                                 THEN PreviewAdd(@, c.i, PreviewCopy(rec)) ELSE @,
                     !.batch = IF c.insert THEN Append(@, rec) ELSE @,
                     !.pc = IF ~c.insert THEN "execute"
                            ELSE IF BatchFull(Append(c.batch, rec), c.batch_size)
                                 THEN "execute" ELSE "loop"]]
      /\ UNCHANGED <<rows, auto_inc>>
      /\ UNCHANGED <<pvars, gvars, hvars, ovars, wvars, svars>>

\* cur.execute / cur.executemany on the call's connection: the rows get their
\* identities and wait for the commit (the flush in the loop, the flush of
\* the last partial batch, or the insert of the single branch)
ParExecute(q) ==
  LET c == calls[q]
      tail == c.insert /\ c.pc = "loop" /\ c.i = c.count /\ c.batch # <<>>
      players == IF c.insert THEN c.batch ELSE <<c.p>>
  IN  /\ c.pc = "execute" \/ tail
      /\ calls' = [calls EXCEPT ![q] =
           [c EXCEPT !.pending = NewRows(players, auto_inc),
                     !.lastrowid = auto_inc,
                     !.pc = IF tail THEN "commit_tail" ELSE "commit"]]
      /\ auto_inc' = auto_inc + Len(players)
      /\ UNCHANGED rows
      /\ UNCHANGED <<pvars, gvars, hvars, ovars, wvars, svars>>

\* conn.commit(), the value returned to generate_and_persist and what the
\* pass does with it
ParCommit(q) ==
  LET c == calls[q] IN
  /\ c.pc \in {"commit", "commit_tail"}
  /\ rows' = rows \o c.pending
  /\ IF ~c.insert
     THEN LET new_id == LastRowId(c.lastrowid, auto_inc) IN
          calls' = [calls EXCEPT ![q] =
            [c EXCEPT !.pending = <<>>,
                      !.total_inserted = @ + 1,
                      !.inserted_ids = Append(@, new_id),
                      !.preview = PreviewAdd(@, c.i - 1, PreviewWithId(c.p, new_id)),
                      !.pc = "loop"]]
     ELSE \E reply \in ParReplies :
            LET ids == IF reply = "ids"
                       THEN ReturnedIds(c.batch, c.lastrowid) ELSE <<>>
            IN  calls' = [calls EXCEPT ![q] =
                  [c EXCEPT !.pending = <<>>,
                            !.total_inserted = @ + Len(c.batch),
                            !.inserted_ids = @ \o ids,
                            !.preview = AssignIds(@, ids, 1),
                            !.batch = IF c.pc = "commit" THEN <<>> ELSE @,
                            !.pc = IF c.pc = "commit" THEN "loop" ELSE "tail_done"]]
  /\ UNCHANGED auto_inc
  /\ UNCHANGED <<pvars, gvars, hvars, ovars, wvars, svars>>

\* the summary of the call and conn.close()
ParReturn(q) ==
  LET c == calls[q]
      pv == IF c.insert THEN FillNone(c.preview) ELSE c.preview
  IN  /\ \/ ~c.insert /\ c.pc = "loop" /\ c.i = c.count
         \/ c.insert /\ c.pc = "tail_done"
         \/ c.insert /\ c.pc = "loop" /\ c.i = c.count /\ c.batch = <<>>
      /\ calls' = [calls EXCEPT ![q] =
           [c EXCEPT !.preview = pv,
                     !.out = [returned |-> TRUE, total_generated |-> c.count,
                              total_inserted |-> c.total_inserted, preview |-> pv,
                              has_inserted_ids |-> (~c.insert \/ c.inserted_ids # <<>>),
                              inserted_ids |-> c.inserted_ids,
                              mode |-> IF c.insert THEN "bulk_insert"
                                       ELSE "single_insert"],
                     !.conn = "closed",
                     !.pc = "returned"]]
      /\ UNCHANGED <<rows, auto_inc>>
      /\ UNCHANGED <<pvars, gvars, hvars, ovars, wvars, svars>>

NextPar ==
  \E q \in Procs :
     \/ ParOpen(q)
     \/ ParGenerate(q)
     \/ ParExecute(q)
     \/ ParCommit(q)
     \/ ParReturn(q)

SpecPar == InitPar /\ [][NextPar]_vars

\* ------------------------------------------------------------------------
\* Vocabulary of the properties of generate_and_persist
\* ------------------------------------------------------------------------
Last(s) == s[Len(s)]

\* the records of players_basic, in row order
StoredRecs == [j \in 1..Len(store) |-> store[j].rec]

\* the records the call's owner has in the store
CallRecs == SelectSeq(StoredRecs, LAMBDA r : r.user_id = user_id)

\* the rows that were in the store before the call
OldRows == SelectSeq(store, LAMBDA r : r.rec.user_id = 0)

IsStored(rec) == \E j \in 1..Len(store) : store[j].rec = rec

\* the identity the store assigned to a record
IdOf(rec) == (CHOOSE r \in {store[j] : j \in 1..Len(store)} : r.rec = rec).player_id

PreviewRecs(pv) == [j \in 1..Len(pv) |-> pv[j].rec]

Succeeded == pc \in {"returning", "returned"}
Failed == pc \in {"raising", "raised"}

\* every flush so far reported all of its rows
FullReplies == \A k \in 1..Len(replies) : replies[k].kind \in {"ids", "count"}
AllReplies(kind) == \A k \in 1..Len(replies) : replies[k].kind = kind

RECURSIVE SumN(_)
SumN(rs) == IF rs = <<>> THEN 0 ELSE Head(rs).n + SumN(Tail(rs))

\* ------------------------------------------------------------------------
\* C1  A call in which no insert fails returns total_generated = count and
\*     total_inserted = count, in single mode and in bulk mode with any
\*     batch_size, and the store has gained exactly the count generated
\*     records; with count = 0 no insert is issued and the summary is
\*     0 / 0 / empty preview.
\* ------------------------------------------------------------------------
C1_CountsMatch ==
  (Succeeded /\ FullReplies) =>
     /\ out.total_generated = count
     /\ out.total_inserted = count
     /\ Len(CallRecs) = count
     /\ CallRecs = generated
     /\ Len(store) = Len(OldRows) + count
     /\ (count = 0 =>
           /\ flushes = <<>>
           /\ next_id = Len(OldRows) + 1
           /\ out.total_generated = 0
           /\ out.total_inserted = 0
           /\ out.preview = <<>>)

C1_Witness ==
  /\ pc = "returned"
  /\ insert
  /\ count = 5
  /\ batch_size = 2
  /\ out.total_inserted = 5
  /\ Len(CallRecs) = 5

C3_SingleIds ==
  (~insert /\ Succeeded) =>
     /\ out.has_inserted_ids
     /\ Len(out.inserted_ids) = count
     /\ \A k \in 1..count :
          /\ IsStored(generated[k])
          /\ out.inserted_ids[k] = IdOf(generated[k])
     /\ \A j \in 1..Min(count, 5) :
          /\ out.preview[j].rec = generated[j]
          /\ out.preview[j].has_key
          /\ out.preview[j].player_id = SomeId(out.inserted_ids[j])
          /\ out.preview[j].player_id = SomeId(IdOf(out.preview[j].rec))

C3_Witness ==
  /\ pc = "returned"
  /\ ~insert
  /\ count = 6
  /\ Len(out.inserted_ids) = 6
  /\ Len(OldRows) = 1
  /\ out.preview[5].player_id = SomeId(6)

\* ------------------------------------------------------------------------
\* C4  Bulk mode, every flush returning one identity per row in insertion
\*     order: preview entry i ends with the non-null identity of the i-th
\*     generated record, and inserted_ids lists the identities of all count
\*     records in generation order.
\* ------------------------------------------------------------------------
C4_BulkIds ==
  (insert /\ Succeeded /\ AllReplies("ids")) =>
     /\ Len(out.inserted_ids) = count
     /\ out.has_inserted_ids = (count > 0)
     /\ \A k \in 1..count :
          /\ IsStored(generated[k])
          /\ out.inserted_ids[k] = IdOf(generated[k])
     /\ Len(out.preview) = Min(count, 5)
     /\ \A j \in 1..Len(out.preview) :
          /\ out.preview[j].rec = generated[j]
          /\ out.preview[j].has_key
          /\ out.preview[j].player_id # NoneId
          /\ out.preview[j].player_id = SomeId(IdOf(generated[j]))

C4_Witness ==
  /\ pc = "returned"
  /\ insert
  /\ count = 5
  /\ batch_size = 2
  /\ Len(replies) = 3
  /\ AllReplies("ids")
  /\ \A j \in 1..5 : out.preview[j].player_id # NoneId

\* ------------------------------------------------------------------------
\* C5  Bulk mode, every flush returning only an affected-row count: every
\*     preview entry ends with a null identity, total_inserted is the sum of
\*     the returned counts, and the summary has no inserted_ids.
\* ------------------------------------------------------------------------
C5_BulkCountOnly ==
  (insert /\ Succeeded /\ AllReplies("count")) =>
     /\ \A j \in 1..Len(out.preview) :
          /\ out.preview[j].has_key
          /\ out.preview[j].player_id = NoneId
     /\ out.total_inserted = SumN(replies)
     /\ ~out.has_inserted_ids

C5_Witness ==
  /\ pc = "returned"
  /\ insert
  /\ count = 5
  /\ batch_size = 2
  /\ Len(replies) = 3
  /\ AllReplies("count")
  /\ out.total_inserted = 5
  /\ Len(out.preview) = 5
  /\ \A j \in 1..5 : out.preview[j].player_id = NoneId

\* ------------------------------------------------------------------------
\* C6  Bulk mode: when the j-th flush fails the call raises immediately.
\*     The failing flush is the last one, every generated record is in a
\*     flushed batch (nothing was generated after it), no summary exists, the
\*     store holds exactly the records of the j-1 batches before it, and
\*     from then on nothing is generated, flushed or stored.
\* ------------------------------------------------------------------------
FlushFailed == insert /\ \E k \in 1..Len(replies) : replies[k].kind = "fail"

C6_FlushFailureState ==
  /\ \A k \in 1..Len(replies) : replies[k].kind = "fail" => k = Len(replies)
  /\ FlushFailed =>
       /\ Failed
       /\ error = "PersistenceError"
       /\ out = NoOut
       /\ generated = Flatten(flushes)
       /\ CallRecs = Flatten(SubSeq(flushes, 1, Len(flushes) - 1))
       /\ Len(store) = Len(OldRows) + Len(generated) - Len(Last(flushes))
       /\ \A k \in 1..Len(Last(flushes)) : ~IsStored(Last(flushes)[k])

\* C6  as a property of the behaviours: the state condition always, and no
\*     step after a failed flush changes what was generated, flushed or stored
C6_FlushFailure ==
  /\ []C6_FlushFailureState
  /\ [][FlushFailed => UNCHANGED <<generated, flushes, replies, store, next_id, i, out>>]_vars

C6_Witness ==
  /\ pc = "raised"
  /\ insert
  /\ count = 6
  /\ batch_size = 2
  /\ Len(replies) = 2
  /\ replies[2].kind = "fail"
  /\ Len(CallRecs) = 2
  /\ Len(generated) = 4

\* ------------------------------------------------------------------------
\* C7  Single mode: when the k-th insert fails the error reaches the caller
\*     (no summary), the k-1 records inserted before remain persisted, and
\*     no record after the k-th is generated or inserted.
\* ------------------------------------------------------------------------
InsertFailed == ~insert /\ error = "PersistenceError"

C7_InsertFailureState ==
  InsertFailed =>
     /\ Failed
     /\ out = NoOut
     /\ Len(generated) >= 1
     /\ total_inserted = Len(generated) - 1
     /\ CallRecs = SubSeq(generated, 1, Len(generated) - 1)
     /\ ~IsStored(Last(generated))
     /\ Len(store) = Len(OldRows) + Len(generated) - 1

\* C7  as a property of the behaviours: the state condition always, no step
\*     after the failed insert generates or stores, and the raised call is over
C7_InsertFailure ==
  /\ []C7_InsertFailureState
  /\ [][InsertFailed => UNCHANGED <<generated, store, next_id, i, out, error>>]_vars
  /\ [][pc = "raised" => UNCHANGED vars]_vars

C7_Witness ==
  /\ pc = "raised"
  /\ ~insert
  /\ error = "PersistenceError"
  /\ count = 6
  /\ Len(generated) = 3
  /\ Len(CallRecs) = 2

\* ------------------------------------------------------------------------
\* C8  (as stated) If the first-name list or the last-name list the call
\*     works with is missing or empty, the call fails with a configuration
\*     error before any record is generated, for every count, in both modes.
\* ------------------------------------------------------------------------
NamesUnusable ==
  \/ ~first_names.some \/ first_names.val = <<>>
  \/ ~last_names.some \/ last_names.val = <<>>

NeedsLoad == ~first_names.some \/ ~last_names.some

C8_LoadFailureState ==
  /\ (pc # "start" /\ NeedsLoad) =>
        /\ pc = "raised"
        /\ error = "RuntimeError"
        /\ db_first = <<>> \/ db_last = <<>>
        /\ conn = "none"
        /\ generated = <<>>
        /\ flushes = <<>>
        /\ store = OldRows
        /\ out = NoOut
  /\ error = "RuntimeError" => (pc = "raised" /\ conn = "none" /\ generated = <<>>)
  /\ (pc # "start" /\ ~NeedsLoad /\ NamesUnusable) =>
        /\ generated = <<>>
        /\ flushes = <<>>
        /\ store = OldRows
        /\ count = 0 => pc \in {"loop", "returning", "returned"}
        /\ count > 0 => (pc \in {"loop", "raising", "raised"} /\ out = NoOut)
        /\ Failed => error = "IndexError"

C16_NameListsUntouched ==
  /\ [][(pc # "start" \/ ~NeedsLoad) => UNCHANGED <<first_names, last_names>>]_vars
  /\ [][(pc = "start" /\ NeedsLoad /\ pc' = "loop")
          => (first_names' = SomeList(db_first) /\ last_names' = SomeList(db_last))]_vars
  /\ [][UNCHANGED <<db_first, db_last>>]_vars

\* a record was named through the touch-up (the one-letter last name "K" got
\* the snippet "Li") and the lists are what they were
C16_Witness ==
  /\ i >= 2
  /\ player_name = "Al KLi"
  /\ first_names = SomeList(<<"Jo", "Al">>)
  /\ last_names = SomeList(<<"Li", "K">>)

\* ------------------------------------------------------------------------
\* C17 A record that has been handed to the store is never modified by the
\*     engine afterwards: neither the row of the store nor the record object
\*     changes when later records are generated, when the batch is cleared
\*     after a flush, or when preview entries are annotated with identities
\*     (the preview entries are separate copies of the records).
\* ------------------------------------------------------------------------
HandedOver(k) ==
  \/ IsStored(generated[k])
  \/ \E f \in 1..Len(flushes) : \E j \in 1..Len(flushes[f]) : flushes[f][j] = generated[k]

C17_RecordObjectsPristine ==
  \A k \in 1..Len(generated) :
     /\ generated[k] = Record(user_id, k)
     /\ HandedOver(k) =>
          RecordObject(generated, preview, k)
            = [rec |-> generated[k], has_key |-> FALSE, player_id |-> NoneId]

C17_PersistedUnmodified ==
  /\ []C17_RecordObjectsPristine
  /\ [][/\ \A j \in 1..Len(store) : Len(store') >= j /\ store'[j] = store[j]
        /\ \A k \in 1..Len(generated) :
              Len(generated') >= k /\ generated'[k] = generated[k]]_vars

\* the first record is stored, its preview entry carries the identity, the
\* batch was cleared and a later record has been generated
C17_Witness ==
  /\ insert
  /\ pc = "loop"
  /\ i = 3
  /\ batch_size = 2
  /\ Len(batch) = 1
  /\ IsStored(generated[1])
  /\ preview[1].rec = generated[1]
  /\ preview[1].has_key
  /\ preview[1].player_id = SomeId(IdOf(generated[1]))

\* ------------------------------------------------------------------------
\* C18 In bulk mode with batch_size b >= 1 and no failure, a flush is issued
\*     exactly when the batch reaches b records or generation has completed
\*     with a non-empty batch: the call issues ceil(count / b) flushes, every
\*     flush holds between 1 and b records, and the flushed batches
\*     concatenated in flush order are the generated records in generation
\*     order, each exactly once.
\* ------------------------------------------------------------------------
CeilDiv(a, b) == (a + b - 1) \div b

C18_FlushesState ==
  (insert /\ FullReplies) =>
     /\ \A f \in 1..Len(flushes) :
           /\ Len(flushes[f]) >= 1
           /\ Len(flushes[f]) <= batch_size
           /\ f < Len(flushes) => Len(flushes[f]) = batch_size
     /\ Flatten(flushes) = Prefix(generated, Len(Flatten(flushes)))
     /\ pc = "loop" => Len(batch) < batch_size
     /\ pc = "flush" => Len(batch) = batch_size
     /\ pc \in {"loop", "flush"} => Flatten(flushes) \o batch = generated
     /\ Succeeded =>
           /\ Len(flushes) = CeilDiv(count, batch_size)
           /\ Flatten(flushes) = generated
           /\ Len(generated) = count
           /\ \A k \in 1..count : generated[k] = Record(user_id, k)

C18_Flushes ==
  /\ []C18_FlushesState
  /\ [][(insert /\ flushes' # flushes)
          => /\ flushes' = Append(flushes, batch)
             /\ Len(batch) = batch_size \/ (i = count /\ batch # <<>>)]_vars

\* five records in batches of two: three flushes, the last of one record
C18_Witness ==
  /\ insert
  /\ Succeeded
  /\ FullReplies
  /\ count = 5
  /\ batch_size = 2
  /\ Len(flushes) = 3
  /\ Len(flushes[3]) = 1

\* ------------------------------------------------------------------------
\* Vocabulary of the properties of generate_player
\* ------------------------------------------------------------------------
PlayerDone == g_pc = "done"

\* ------------------------------------------------------------------------
\* C9  Every record generate_player produces has, for every tier and every
\*     random outcome, each of the twenty stats of STAT_KEYS as an integer
\*     in [1, 99].
\* ------------------------------------------------------------------------
C9_StatsInRange ==
  PlayerDone =>
     \A j \in 1..Len(STAT_KEYS) :
        /\ STAT_KEYS[j] \in DOMAIN player
        /\ player[STAT_KEYS[j]] \in Int
        /\ player[STAT_KEYS[j]] >= 1
        /\ player[STAT_KEYS[j]] <= 99

C9_Witness ==
  /\ PlayerDone
  /\ grade = "SS"
  /\ target_sum = 950
  /\ player["ath_stamina"] = 99
  /\ player["talent_luck"] = 99
  /\ player["shot_accuracy"] = 1
  /\ player["shot_range"] = 99

C11_StatsInTierRange ==
  g_pc \in {"dist", "allocated", "done"} =>
     /\ DOMAIN stats = Range(UNTRAINABLE_KEYS)
     /\ \A k \in Range(UNTRAINABLE_KEYS) :
           /\ stats[k] >= GRADE_RULES[grade].stat_min
           /\ stats[k] <= GRADE_RULES[grade].stat_max
           /\ PlayerDone => player[k] = stats[k]

\* a stat has been driven to the cap of its tier while the loop still runs
C11_Witness ==
  /\ g_pc = "dist"
  /\ grade = "S"
  /\ remaining > 0
  /\ stats["ath_stamina"] = GRADE_RULES["S"].stat_max
  /\ stats["talent_luck"] > GRADE_RULES["S"].stat_min
  /\ stats["talent_luck"] < GRADE_RULES["S"].stat_max

\* ------------------------------------------------------------------------
\* C12 The start_salary of a generated record is the twenty stats of the
\*     record summed and multiplied by the factor of its overall_grade,
\*     rounded to an integer.  As stated, with round taken on the exact
\*     product S x f (Python's round: the nearest integer, the even one at a
\*     half): start_salary = round(S x f).
\* ------------------------------------------------------------------------
StatTotal == SumKeys(player, STAT_KEYS)

\* round-half-even of the exact product n / 10
RoundExact(n) ==
  LET q == n \div 10
      r == n % 10
  IN  IF r < 5 THEN q
      ELSE IF r > 5 THEN q + 1
      ELSE IF q % 2 = 0 THEN q ELSE q + 1

C12_SalaryRoundsExactProduct ==
  PlayerDone =>
     player.start_salary = RoundExact(StatTotal * GRADE_FACTOR[player.overall_grade])

\* C12 amended: start_salary is an integer nearest to S x f, S the sum of the
\*     twenty stats of the final record and f the factor of its tier; it is
\*     the only such integer unless S x f lies exactly halfway, and then it is
\*     one of the two neighbours: the even one for the tiers B and SS, and for
\*     tier C the upper one whenever the double S * 1.1 lies above the half
\*     (the tiers G, A, S and SSR never give a half).
C12_SalaryNearest ==
  PlayerDone =>
     LET n == StatTotal * GRADE_FACTOR[player.overall_grade]
         sal == player.start_salary
     IN  /\ player.overall_grade = grade
         /\ StatTotal = SumKeys(stats, UNTRAINABLE_KEYS) + SumKeys(player, TRAINABLE_KEYS)
         /\ sal \in Int
         /\ 10 * sal - n <= 5
         /\ n - 10 * sal <= 5
         /\ n % 10 = 5 => grade \in {"C", "B", "SS"}
         /\ (n % 10 = 5 /\ grade \in {"B", "SS"}) => sal % 2 = 0
         /\ (n % 10 = 5 /\ grade = "C" /\ StatTotal \in TiesAbove11) => 10 * sal = n + 5

\* tier C, S = 855: S x 1.1 is 940.5, the double product is above it, and
\* the salary is 941 where the even neighbour is 940
C12_Witness ==
  /\ PlayerDone
  /\ grade = "C"
  /\ StatTotal = 855
  /\ player.start_salary = 941

\* ------------------------------------------------------------------------
\* C19 In every generated record, untrainable_sum equals the sum of the ten
\*     untrainable stats as they appear in the final record: the merge with
\*     the trainable stats overwrites no untrainable stat, because the
\*     untrainable and the trainable keys are disjoint and together are
\*     exactly the twenty keys of STAT_KEYS.
\* ------------------------------------------------------------------------
C19_UntrainableSumOfFinalStats ==
  /\ Range(UNTRAINABLE_KEYS) \cap Range(TRAINABLE_KEYS) = {}
  /\ Range(UNTRAINABLE_KEYS) \cup Range(TRAINABLE_KEYS) = Range(STAT_KEYS)
  /\ Cardinality(Range(UNTRAINABLE_KEYS)) = 10
  /\ Cardinality(Range(STAT_KEYS)) = 20
  /\ PlayerDone =>
       /\ player.untrainable_sum = SumKeys(player, UNTRAINABLE_KEYS)
       /\ player.untrainable_sum = SumKeys(stats, UNTRAINABLE_KEYS)
       /\ \A k \in Range(UNTRAINABLE_KEYS) : player[k] = stats[k]
       /\ Range(STAT_KEYS) \subseteq DOMAIN player

\* the trainable stats differ from every untrainable stat of the record
C19_Witness ==
  /\ PlayerDone
  /\ grade = "B"
  /\ player.untrainable_sum = 700
  /\ player["shot_accuracy"] = 1
  /\ player["shot_range"] = 1
  /\ player["shot_touch"] = 70

\* ------------------------------------------------------------------------
\* C20 When the floor allocation already reaches the drawn target
\*     (10 x stat_min >= target_sum), the allocator returns the floor
\*     allocation unchanged: all ten stats equal stat_min, and neither the
\*     distribution loop nor the post-correction is applied.
\* ------------------------------------------------------------------------
FloorAtTarget ==
  g_pc # "start" /\ 10 * GRADE_RULES[grade].stat_min >= target_sum

C20_FloorReturnedState ==
  FloorAtTarget =>
     /\ g_pc \in {"allocated", "done"}
     /\ \A k \in Range(UNTRAINABLE_KEYS) : stats[k] = GRADE_RULES[grade].stat_min
     /\ capacity = NoStats
     /\ remaining = 0

C20_FloorReturned ==
  /\ []C20_FloorReturnedState
  /\ [][FloorAtTarget' => (UNCHANGED stats \/ g_pc = "start")]_vars

\* tier G with the target equal to the floor sum 100
C20_Witness ==
  /\ g_pc = "allocated"
  /\ grade = "G"
  /\ target_sum = 100
  /\ stats["ath_stamina"] = 10
  /\ stats["talent_luck"] = 10

\* ------------------------------------------------------------------------
\* C13 For every generated record, height_cm is an integer with
\*     160 <= height_cm <= 230: the accepted base draw lies in [160, 230],
\*     the jitter in [0, 10] is added to its rounding, and the result is
\*     clamped to 230.
\* ------------------------------------------------------------------------
C13_HeightInRange ==
  h_pc \in {"position", "done"} =>
     /\ height_cm \in Int
     /\ height_cm >= 160
     /\ height_cm <= 230
     /\ height >= 1600
     /\ height <= 2300
     /\ dice \in 0..10
     /\ \/ height_cm = 230 /\ 10 * (230 - dice) <= height + 5
        \/ /\ 10 * (height_cm - dice) - height <= 5
           /\ height - 10 * (height_cm - dice) <= 5

\* the clamp acts: 229.5 rounds to 230, the dice adds 10, the result is 230
C13_Witness ==
  /\ h_pc = "done"
  /\ height = 2295
  /\ dice = 10
  /\ height_cm = 230

\* ------------------------------------------------------------------------
\* C14 For every generated record, position is exactly one of PG, SG, SF,
\*     PF, C and one that the table of the bucket of the final height allows:
\*     below 190 only PG or SG, 190-199 only PG, SG or SF, and only heights
\*     of 200 and more can give PF or C; the buckets change exactly at 190,
\*     200 and 210 (a draw of r that tells two neighbouring buckets apart
\*     gives the position of the bucket the height is in).
\* ------------------------------------------------------------------------
C14_PositionOfBucket ==
  h_pc = "done" =>
     /\ position \in Range(POSITIONS)
     /\ height_cm < 190 => position \in {"PG", "SG"}
     /\ (height_cm >= 190 /\ height_cm < 200) => position \in {"PG", "SG", "SF"}
     /\ position \in {"PF", "C"} => height_cm >= 200
     /\ (height_cm < 190 /\ r_pos >= 35 /\ r_pos < 60) => position = "PG"
     /\ (height_cm >= 190 /\ height_cm < 200 /\ r_pos >= 35 /\ r_pos < 60) => position = "SG"
     /\ (height_cm >= 190 /\ height_cm < 200 /\ r_pos >= 85) => position = "SF"
     /\ (height_cm >= 200 /\ r_pos >= 85) => position = "C"
     /\ (height_cm >= 200 /\ height_cm < 210 /\ r_pos >= 25 /\ r_pos < 35) => position = "SF"
     /\ (height_cm >= 210 /\ r_pos >= 25 /\ r_pos < 35) => position = "PF"

\* the base draw is in the first bucket, the dice moves the final height to
\* 190, and the position is one only the second bucket gives for this r
C14_Witness ==
  /\ h_pc = "done"
  /\ height = 1800
  /\ dice = 10
  /\ height_cm = 190
  /\ r_pos = 85
  /\ position = "SF"

\* ------------------------------------------------------------------------
\* C15 When two generate_and_persist calls run in parallel, each on its own
\*     connection, then under every interleaving of their steps each call
\*     returns total_inserted equal to its own count, the identities in its
\*     inserted_ids and its preview belong only to records it generated with
\*     its own owner id, and the store ends with the records of both calls,
\*     none lost or duplicated.
\* ------------------------------------------------------------------------
RowsWithId(n) == {j \in 1..Len(rows) : rows[j].player_id = n}

\* identity n is the identity of one committed row, a record of call q
OwnIdentity(q, n) ==
  /\ Cardinality(RowsWithId(n)) = 1
  /\ \A j \in RowsWithId(n) :
        /\ rows[j].rec.call = q
        /\ rows[j].rec.user_id = calls[q].user_id
        /\ rows[j].rec \in Range(calls[q].generated)

BothReturned == \A q \in Procs : calls[q].pc = "returned"

C15_ParallelCalls ==
  /\ \A q \in Procs :
       calls[q].pc = "returned" =>
          LET o == calls[q].out IN
          /\ o.total_generated = calls[q].count
          /\ o.total_inserted = calls[q].count
          /\ calls[q].conn = "closed"
          /\ \A k \in 1..Len(o.inserted_ids) : OwnIdentity(q, o.inserted_ids[k])
          /\ ~calls[q].insert =>
                /\ Len(o.inserted_ids) = calls[q].count
                /\ \A k \in 1..calls[q].count :
                      \A j \in RowsWithId(o.inserted_ids[k]) :
                         rows[j].rec = calls[q].generated[k]
          /\ \A k \in 1..Len(o.preview) :
                /\ o.preview[k].rec = calls[q].generated[k]
                /\ o.preview[k].player_id # NoneId
                      => OwnIdentity(q, o.preview[k].player_id[1])
  /\ \A j1, j2 \in 1..Len(rows) :
       (rows[j1].player_id = rows[j2].player_id \/ rows[j1].rec = rows[j2].rec)
          => j1 = j2
  /\ BothReturned =>
       /\ Len(rows) = calls[1].count + calls[2].count
       /\ {rows[j].rec : j \in 1..Len(rows)}
            = Range(calls[1].generated) \cup Range(calls[2].generated)

\* both calls returned after their inserts interleaved: call 2 took its
\* identities after call 1 and committed before it
C15_Witness ==
  /\ BothReturned
  /\ calls[1].count = 2
  /\ calls[2].count = 2
  /\ ~calls[1].insert
  /\ calls[2].insert
  /\ calls[1].user_id = calls[2].user_id
  /\ calls[2].out.inserted_ids = <<2, 4>>
  /\ rows[1].rec.call = 2
  /\ rows[1].player_id = 2
  /\ rows[2].rec.call = 1
  /\ rows[2].player_id = 1

\* ------------------------------------------------------------------------
\* C21 In the allocator, when the floor sum is below target_sum, every step
\*     of the distribution loop adds between 1 and 3 points to one stat that
\*     still has headroom, never raising that stat above stat_max nor the
\*     running sum above target_sum, and the loop stops only when the sum
\*     equals target_sum or all ten stats are at stat_max.
\* ------------------------------------------------------------------------
UntrainableSum == SumKeys(stats, UNTRAINABLE_KEYS)

AllAtMax == \A k \in Range(UNTRAINABLE_KEYS) : stats[k] = GRADE_RULES[grade].stat_max

C21_LoopState ==
  g_pc = "dist" => (UntrainableSum <= target_sum /\ UntrainableSum = target_sum - remaining)

C21_LoopStep ==
  /\ []C21_LoopState
  /\ [][(g_pc = "dist" /\ g_pc' = "dist") =>
          LET step == remaining - remaining' IN
          /\ step \in 1..3
          /\ remaining' >= 0
          /\ \E k \in DOMAIN stats :
                /\ stats[k] < GRADE_RULES[grade].stat_max
                /\ stats[k] + step <= GRADE_RULES[grade].stat_max
                /\ stats' = [stats EXCEPT ![k] = @ + step]]_vars
  /\ [][(g_pc = "dist" /\ g_pc' # "dist") => (UntrainableSum = target_sum \/ AllAtMax)]_vars
  /\ [][(g_pc = "start" /\ g_pc' = "dist") => remaining' > 0]_vars

\* the loop is running in tier A: one stat is at the cap 75, another got a
\* step of 3 on top of the floor 40
C21_Witness ==
  /\ g_pc = "dist"
  /\ grade = "A"
  /\ target_sum = 800
  /\ remaining > 0
  /\ stats["ath_stamina"] = 75
  /\ stats["talent_luck"] = 43

\* ------------------------------------------------------------------------
\* C22 The allocator always terminates, for every tier and every sequence of
\*     random choices, without any fairness assumption: each iteration of the
\*     distribution loop assigns at least 1 point, so the loop runs at most
\*     target_sum - 10 x stat_min iterations.  As a variant: what remains of
\*     the target starts at no more than target_sum - 10 x stat_min, every
\*     iteration lowers it by at least 1 whatever is drawn, it never goes
\*     below 0, no key the loop can choose gives a step of 0, and the loop
\*     is left as soon as nothing remains or no key has capacity.
\* ------------------------------------------------------------------------
C22_RemainingState ==
  g_pc = "dist" =>
     /\ remaining >= 0
     /\ remaining <= target_sum - 10 * GRADE_RULES[grade].stat_min
     /\ remaining = target_sum - UntrainableSum
     /\ remaining > 0 =>
           \A j \in 1..Len(Candidates(capacity)) : \A x \in 1..3 :
              StepSize(remaining, capacity[Candidates(capacity)[j]], x) >= 1
     /\ (remaining = 0 \/ Candidates(capacity) = <<>>) => ENABLED PostCorrect

C22_Terminates ==
  /\ []C22_RemainingState
  /\ [][(g_pc = "dist" /\ g_pc' = "dist") =>
          (remaining' < remaining /\ remaining' >= 0)]_vars

\* the loop has run to the last point of the largest budget (tier G, from
\* the floor 100 to the target 400)
C22_Witness ==
  /\ g_pc = "dist"
  /\ grade = "G"
  /\ target_sum = 400
  /\ remaining = 0
  /\ UntrainableSum = 400

C28_CloseState ==
  /\ closes \in {0, 1}
  /\ conn = "none" => (closes = 0 /\ pc \in {"start", "raised"} /\ store = OldRows)
  /\ conn = "open" => (closes = 0 /\ pc \notin {"start", "returned", "raised"})
  /\ conn = "closed" => (closes = 1 /\ pc \in {"returned", "raised"})
  /\ pc = "returned" => (conn = "closed" /\ closes = 1)
  /\ (pc = "raised" /\ error # "RuntimeError") => (conn = "closed" /\ closes = 1)

C28_ClosedOnce ==
  /\ []C28_CloseState
  /\ [][conn = "closed" => UNCHANGED <<conn, closes, store, next_id, flushes, replies>>]_vars
  /\ [][store' # store => (conn = "open" /\ conn' = "open")]_vars

\* a failed flush after a flush that stored a batch: closed once
C28_Witness ==
  /\ pc = "raised"
  /\ FlushFailed
  /\ Len(flushes) = 2
  /\ conn = "closed"
  /\ closes = 1

\* ------------------------------------------------------------------------
\* C26 With the tiers of GRADE_RULES the post-correction never changes a
\*     stat: the distribution loop ends with the sum at target_sum or with
\*     all ten stats at stat_max, and the sum the allocator returns is
\*     max(10 x stat_min, min(target_sum, 10 x stat_max)).  Tier S therefore
\*     yields only the sums 799 and 800, and tier A never a sum above 750.
\* ------------------------------------------------------------------------
ClampedTarget ==
  LET lo == 10 * GRADE_RULES[grade].stat_min
      hi == 10 * GRADE_RULES[grade].stat_max
      m  == Min(target_sum, hi)
  IN  IF m >= lo THEN m ELSE lo

C26_AllocatedState ==
  g_pc \in {"allocated", "done"} =>
     /\ UntrainableSum = ClampedTarget
     /\ grade = "S" => UntrainableSum \in {799, 800}
     /\ grade = "A" => UntrainableSum <= 750

C24_ReturnedState ==
  /\ h_pc = "height" => (height_cm = 0 /\ dice = 0 /\ (height = 0 \/ height < 1600 \/ height > 2300))
  /\ h_pc # "height" =>
        /\ height >= 1600 /\ height <= 2300
        /\ height_cm = Min(RoundTenths(height) + dice, 230)

C24_HeightReturns ==
  /\ []C24_ReturnedState
  /\ [][(h_pc = "height" /\ h_pc' = "height") =>
          /\ height' < 1600 \/ height' > 2300
          /\ UNCHANGED <<dice, height_cm>>]_vars
  /\ [][(h_pc = "height" /\ h_pc' # "height") =>
          /\ height' >= 1600 /\ height' <= 2300
          /\ dice' \in 0..10
          /\ height_cm' = Min(RoundTenths(height') + dice', 230)]_vars
  /\ <>(h_pc # "height")
  /\ (h_pc = "height") ~> (h_pc = "position" /\ height_cm >= 160 /\ height_cm <= 230)

\* a draw of 230.1 cm was rejected: nothing is returned and nothing kept of it
C24_Witness ==
  /\ h_pc = "height"
  /\ height = 2301
  /\ height_cm = 0
  /\ dice = 0

\* ------------------------------------------------------------------------
\* C23 The final check of the allocator, for stats within
\*     [stat_min, stat_max]: a sum below sum_min is raised, no stat above
\*     stat_max and none lowered, until the sum is exactly sum_min or every
\*     stat is at stat_max; a sum above sum_max is lowered, no stat below
\*     stat_min and none raised, until the sum is sum_max or every stat is
\*     at stat_min; a sum within [sum_min, sum_max] leaves every stat as it
\*     was.
\* ------------------------------------------------------------------------
PostRule == GRADE_RULES[post_grade]

PostSumIn == SumKeys(post_in, UNTRAINABLE_KEYS)

PostSumOut == SumKeys(post_out, UNTRAINABLE_KEYS)

C23_PostCorrection ==
  post_pc = "done" =>
     /\ DOMAIN post_out = DOMAIN post_in
     /\ \A k \in DOMAIN post_out :
          post_out[k] >= PostRule.stat_min /\ post_out[k] <= PostRule.stat_max
     /\ PostSumIn < PostRule.sum_min =>
          /\ \A k \in DOMAIN post_out : post_out[k] >= post_in[k]
          /\ \/ PostSumOut = PostRule.sum_min
             \/ \A k \in DOMAIN post_out : post_out[k] = PostRule.stat_max
     /\ PostSumIn > PostRule.sum_max =>
          /\ \A k \in DOMAIN post_out : post_out[k] <= post_in[k]
          /\ \/ PostSumOut = PostRule.sum_max
             \/ \A k \in DOMAIN post_out : post_out[k] = PostRule.stat_min
     /\ (PostSumIn >= PostRule.sum_min /\ PostSumIn <= PostRule.sum_max) =>
          post_out = post_in

\* tier C, ten stats of 20 (sum 200): raised to the sum 399, three stats to
\* 70 and one to 69
C23_Witness ==
  /\ post_pc = "done"
  /\ post_grade = "C"
  /\ PostSumIn = 200
  /\ PostSumOut = 399
  /\ post_out[keys_for_dist[1]] = 70
  /\ post_out[keys_for_dist[4]] = 69

\* ------------------------------------------------------------------------
\* C25 (as stated) A view under login_required runs only when the session
\*     holds a user_id and fewer than 600 seconds have passed since
\*     last_seen was written; when 600 seconds or more have passed, the next
\*     request records an idle_timeout logout, clears the session and is
\*     redirected without running the view; a request that runs the view
\*     sets last_seen to the current time, and a request less than 600
\*     seconds after the previous one is not timed out.
\* ------------------------------------------------------------------------
\* a step of ProtectedRequest
ProtectedStep == requests' = requests + 1 /\ response' \in {"view", "timeout", "login"}

ViewRan == view_runs' = view_runs + 1

\* tenths of a second since last_seen was written
Elapsed == now - touched

IdleRecord == [user_id |-> session.user_id, reason |-> "idle_timeout"]

C25_SessionState ==
  /\ session.user_id # 0 => (session.last_seen # 0 /\ session.last_seen = NowTs(touched))
  /\ session.user_id = 0 => session = NoSession
  /\ view_runs <= requests
  /\ \A j \in 1..Len(logout_log) : logout_log[j].user_id # 0

ProbesDone == \A q \in DOMAIN probes : probes[q].pc = "done"

C29_ProbeCharged ==
  (ProbesDone /\ probes[1].times_raw \in {"1", "10", "ALL"}) =>
     /\ probes[1].k = (IF probes[1].times_raw = "ALL" THEN chances_before
                        ELSE IF probes[1].times_raw = "10" THEN Min(10, chances_before)
                        ELSE Min(1, chances_before))
     /\ scouted = probes[1].success
     /\ scouted <= probes[1].k
     /\ scouting_chances_left = chances_before - scouted
     /\ scouting_chances_left >= 0

\* ------------------------------------------------------------------------
\* C30 Two probe requests of the same user, in any interleaving: the
\*     players they persist are never more than the chances the user had,
\*     and at the end scouting_chances_left is the chances before minus the
\*     players persisted.  (Stated here for the runs in which no commit
\*     fails, where it is violated as well.)
\* ------------------------------------------------------------------------
NoCommitFailed == \A q \in DOMAIN probes : probes[q].commit # "failed"

C30_NoLostDecrement ==
  NoCommitFailed =>
     /\ scouted <= chances_before
     /\ ProbesDone => scouting_chances_left = chances_before - scouted


====
